---- MODULE Spec2Model ----
(***************************************************************************)
(* Model of the wecan-comply-middleware backend-client lifecycle manager   *)
(* (src/services/sdk-client.ts): the module-level sdkClient variable, the  *)
(* async getSDKClient() with its single suspension point at                *)
(* `await WecanComply.create(...)`, resetSDKClient(), and the              *)
(* onUnauthorized callback handed to the SDK.  Callers are in-flight HTTP  *)
(* requests on the single-threaded event loop: every action below is one   *)
(* run-to-completion step between two suspension points.                   *)
(*                                                                         *)
(* Nine specifications share the variables:                                *)
(*   Spec           the lifecycle manager with abstract callers;           *)
(*   GatewaySpec    the route handlers, the health probe, the 404 handler  *)
(*                  and the error middleware on top of the manager;        *)
(*   ConcurrentSpec several requests open at once, with fairness of the    *)
(*                  handler segments and of the awaited calls;             *)
(*   ResetSpec      several requests open at once and resetSDKClient();    *)
(*   RoutingSpec    the body parsers in front of the routes;               *)
(*   CreateVaultSpec  the validation of POST /:workspaceUuid/vaults;       *)
(*   RoundTripSpec  the answers routes against a backend that stores;      *)
(*   KeysSpec       getSDKClient() with WECAN_WORKSPACE_KEYS;              *)
(*   ConfigSpec     the resolution of the configuration (config/index.ts)  *)
(*                  and the start of the server (index.ts).                *)
(***************************************************************************)
EXTENDS Integers, Sequences, FiniteSets, TLC

\* Number of requests that may be in flight at the same time.
NumCallers == 3
\* Number of entries the modelled log can hold; it bounds the length of a run.
MaxLog == 5

Callers == 1..NumCallers

VARIABLES
  accessToken,   \* sensitiveConfig.accessToken is set (TRUE) or undefined
  sdkClient,     \* the stored handle: 0 is null, n > 0 the n-th created client
  createCount,   \* number of WecanComply.create calls made so far
  pc,            \* per caller: position of its getSDKClient() invocation
  attempt,       \* per caller: the create call its invocation awaits / awaited
  result,        \* per caller: the handle its invocation returned (0: none)
  resolved,      \* create calls whose promise has resolved
  rejected,      \* create calls whose promise has rejected
  log,           \* logger output, oldest first
  joined,        \* history: create calls pending when the caller's call began
  resetDuring,   \* history: create calls that were pending at some reset
  afterReset,    \* history: a reset happened and no call has begun since
  staleHandle,   \* history: handle that was stored at the latest reset
  lastFast,      \* history: handle returned by the latest call made on a stored
                 \*          handle since the latest reset (0: none)
  nodeEnv,       \* process.env.NODE_ENV
  stage,         \* per caller: position of the request in its route handler
  req,           \* per caller: the request being handled, <<>> if none
  error,         \* per caller: the error its getSDKClient() call threw, <<>> if none
  response,      \* per caller: the response sent, <<>> if none
  ops,           \* per caller: the backend operations invoked for the request
  store,         \* the answers kept by the backend, per workspace and vault
  env,           \* process.env as seen by config/index.ts
  fileConfig,    \* contents of config/default.json
  config,        \* the exported config object, <<>> before resolution
  server         \* what index.ts has started: "none", "http", "https",
                 \* "exited" (process.exit(1)) or "crashed" (uncaught throw)

vars == <<accessToken, sdkClient, createCount, pc, attempt, result, resolved,
          rejected, log, joined, resetDuring, afterReset, staleHandle, lastFast,
          nodeEnv, stage, req, error, response, ops, store, env, fileConfig,
          config, server>>

\* The variables of sdk-client.ts and their history, without the log.
clientVars == <<accessToken, sdkClient, createCount, pc, attempt, result,
                resolved, rejected, joined, resetDuring, afterReset,
                staleHandle, lastFast>>

\* The request-local variables of the route handlers.
gatewayVars == <<nodeEnv, stage, req, error, response, ops, store>>

\* The variables of config/index.ts and of the start of index.ts.
configVars == <<env, fileConfig, config, server>>

\* What the lifecycle manager itself stores.
managerVars == <<sdkClient, createCount, pc, attempt, result, resolved, rejected>>

LogEntry(level, msg) == [level |-> level, msg |-> msg]

\* logger.info / logger.error: append one entry.
Logged(level, msg) ==
  /\ Len(log) < MaxLog
  /\ log' = Append(log, LogEntry(level, msg))

\* The create calls whose promise is still pending.
Pending == {attempt[c] : c \in {d \in Callers : pc[d] = "awaitCreate"}}

\* The identifiers used in paths, and the answer contents.
Workspaces == {"w1", "w2"}
Vaults == {"v1", "v2"}
Contents == {"A1", "A2"}

\* The backend keeps answers per (workspace, vault); "none" before any save.
StoreKeys == (Workspaces \cup Vaults) \X (Workspaces \cup Vaults)
EmptyStore == [k \in StoreKeys |-> "none"]

\* No request is being handled, and the backend holds no answers.
GatewayIdle ==
  /\ store = EmptyStore
  /\ stage = [c \in Callers |-> "free"]
  /\ req = [c \in Callers |-> <<>>]
  /\ error = [c \in Callers |-> <<>>]
  /\ response = [c \in Callers |-> <<>>]
  /\ ops = [c \in Callers |-> <<>>]

\* The configuration is not looked at.
ConfigIdle ==
  /\ env = <<>>
  /\ fileConfig = <<>>
  /\ config = <<>>
  /\ server = "none"

\* sdk-client.ts after module load.
ClientInit ==
  /\ accessToken \in BOOLEAN
  /\ sdkClient = 0
  /\ createCount = 0
  /\ pc = [c \in Callers |-> "idle"]
  /\ attempt = [c \in Callers |-> 0]
  /\ result = [c \in Callers |-> 0]
  /\ resolved = {}
  /\ rejected = {}
  /\ log = <<>>
  /\ joined = [c \in Callers |-> {}]
  /\ resetDuring = {}
  /\ afterReset = FALSE
  /\ staleHandle = 0
  /\ lastFast = 0

Init ==
  /\ ClientInit
  /\ nodeEnv = "production"
  /\ GatewayIdle
  /\ ConfigIdle

\* getSDKClient(), lines 11-13: a handle is stored, return it.
ReturnStored(c) ==
  /\ pc[c] = "idle"
  /\ sdkClient # 0
  /\ pc' = [pc EXCEPT ![c] = "returned"]
  /\ result' = [result EXCEPT ![c] = sdkClient]
  /\ joined' = [joined EXCEPT ![c] = Pending]
  /\ afterReset' = FALSE
  /\ lastFast' = sdkClient
  /\ UNCHANGED <<accessToken, sdkClient, createCount, attempt, resolved,
                 rejected, log, resetDuring, staleHandle>>

\* A variant without the token check: the create call is made without a token.
ThrowNoTokenCreates(c) ==
  /\ pc[c] = "idle"
  /\ sdkClient = 0
  /\ ~accessToken
  /\ Logged("info", "Initializing WecanComply SDK client...")
  /\ createCount' = createCount + 1
  /\ attempt' = [attempt EXCEPT ![c] = createCount + 1]
  /\ pc' = [pc EXCEPT ![c] = "awaitCreate"]
  /\ joined' = [joined EXCEPT ![c] = Pending]
  /\ afterReset' = FALSE
  /\ UNCHANGED <<accessToken, sdkClient, result, resolved, rejected,
                 resetDuring, staleHandle, lastFast>>

\* getSDKClient(), lines 15-17: no handle and no token, throw.
ThrowNoToken(c) ==
  /\ pc[c] = "idle"
  /\ sdkClient = 0
  /\ ~accessToken
  /\ pc' = [pc EXCEPT ![c] = "thrown"]
  /\ joined' = [joined EXCEPT ![c] = Pending]
  /\ afterReset' = FALSE
  /\ UNCHANGED <<accessToken, sdkClient, createCount, attempt, result,
                 resolved, rejected, log, resetDuring, staleHandle, lastFast>>

\* getSDKClient(), lines 19-30: log, call WecanComply.create and suspend on it.
StartCreate(c) ==
  /\ pc[c] = "idle"
  /\ sdkClient = 0
  /\ accessToken
  /\ Logged("info", "Initializing WecanComply SDK client...")
  /\ createCount' = createCount + 1
  /\ attempt' = [attempt EXCEPT ![c] = createCount + 1]
  /\ pc' = [pc EXCEPT ![c] = "awaitCreate"]
  /\ joined' = [joined EXCEPT ![c] = Pending]
  /\ afterReset' = FALSE
  /\ UNCHANGED <<accessToken, sdkClient, result, resolved, rejected,
                 resetDuring, staleHandle, lastFast>>

\* getSDKClient() up to its first suspension point.
getSDKClient(c) == ReturnStored(c) \/ ThrowNoToken(c) \/ StartCreate(c)

\* getSDKClient(), lines 22 and 32-33: the create promise resolves, the
\* invocation resumes, stores the new handle and returns the stored handle.
CreateResolved(c) ==
  /\ pc[c] = "awaitCreate"
  /\ Logged("info", "WecanComply SDK client initialized successfully")
  /\ sdkClient' = attempt[c]
  /\ resolved' = resolved \cup {attempt[c]}
  /\ result' = [result EXCEPT ![c] = attempt[c]]
  /\ pc' = [pc EXCEPT ![c] = "returned"]
  /\ UNCHANGED <<accessToken, createCount, attempt, rejected, joined,
                 resetDuring, afterReset, staleHandle, lastFast>>

\* getSDKClient(), lines 34-37: the create promise rejects, the invocation
\* resumes in the catch block, logs and rethrows.
CreateRejected(c) ==
  /\ pc[c] = "awaitCreate"
  /\ Logged("error", "Failed to initialize WecanComply SDK client:")
  /\ rejected' = rejected \cup {attempt[c]}
  /\ pc' = [pc EXCEPT ![c] = "thrown"]
  /\ UNCHANGED <<accessToken, sdkClient, createCount, attempt, result,
                 resolved, joined, resetDuring, afterReset, staleHandle,
                 lastFast>>

\* A variant of the reset that also takes back the handles already returned
\* to callers.
resetSDKClientRevoking ==
  /\ Logged("info", "SDK client reset")
  /\ sdkClient' = 0
  /\ result' = [c \in Callers |-> 0]
  /\ resetDuring' = resetDuring \cup Pending
  /\ afterReset' = TRUE
  /\ staleHandle' = sdkClient
  /\ lastFast' = 0
  /\ UNCHANGED <<accessToken, createCount, pc, attempt, resolved,
                 rejected, joined>>

\* resetSDKClient(), lines 43-46.
resetSDKClient ==
  /\ Logged("info", "SDK client reset")
  /\ sdkClient' = 0
  /\ resetDuring' = resetDuring \cup Pending
  /\ afterReset' = TRUE
  /\ staleHandle' = sdkClient
  /\ lastFast' = 0
  /\ UNCHANGED <<accessToken, createCount, pc, attempt, result, resolved,
                 rejected, joined>>

\* A variant of the callback that also drops the stored handle.
onUnauthorizedResetting(h) ==
  /\ h \in 1..createCount
  /\ Logged("error", "Unauthorized error from SDK:")
  /\ sdkClient' = 0
  /\ UNCHANGED <<accessToken, createCount, pc, attempt, result,
                 resolved, rejected, joined, resetDuring, afterReset,
                 staleHandle, lastFast>>

\* The onUnauthorized callback of create call h, lines 27-29: log only.
onUnauthorized(h) ==
  /\ h \in 1..createCount
  /\ Logged("error", "Unauthorized error from SDK:")
  /\ UNCHANGED <<accessToken, sdkClient, createCount, pc, attempt, result,
                 resolved, rejected, joined, resetDuring, afterReset,
                 staleHandle, lastFast>>

\* The awaiting request handler resumes with the outcome of getSDKClient()
\* and finishes; the caller slot is free for the next request.
Respond(c) ==
  /\ pc[c] \in {"returned", "thrown"}
  /\ pc' = [pc EXCEPT ![c] = "idle"]
  /\ attempt' = [attempt EXCEPT ![c] = 0]
  /\ result' = [result EXCEPT ![c] = 0]
  /\ joined' = [joined EXCEPT ![c] = {}]
  /\ UNCHANGED <<accessToken, sdkClient, createCount, resolved, rejected,
                 log, resetDuring, afterReset, staleHandle, lastFast>>

\* The SDK reports an invalid token through the callback of some create call.
UnauthorizedNotification == \E h \in 1..createCount : onUnauthorized(h)

Next ==
  \/ \E c \in Callers : getSDKClient(c) /\ UNCHANGED <<gatewayVars, configVars>>
  \/ \E c \in Callers : CreateResolved(c) /\ UNCHANGED <<gatewayVars, configVars>>
  \/ \E c \in Callers : CreateRejected(c) /\ UNCHANGED <<gatewayVars, configVars>>
  \/ \E c \in Callers : Respond(c) /\ UNCHANGED <<gatewayVars, configVars>>
  \/ resetSDKClient /\ UNCHANGED <<gatewayVars, configVars>>
  \/ UnauthorizedNotification /\ UNCHANGED <<gatewayVars, configVars>>

Spec == Init /\ [][Next]_vars

(***************************************************************************)
(* The later version of the manager (routes/workspace.ts lines 194-267),   *)
(* which reads the per-workspace keys from WECAN_WORKSPACE_KEYS before it   *)
(* calls WecanComply.create.  A log entry made with an error argument       *)
(* carries that error in its field err.  What the errors of the SDK contain *)
(* is not part of the repository: their entries are kept without err.       *)
(***************************************************************************)

\* The values of WECAN_WORKSPACE_KEYS that are looked at: not set, empty, a
\* JSON array of two keys, an empty JSON array, a JSON object, and a key
\* pasted as it is, which is not JSON.
KeysEnvValues ==
  {<<>>, <<"">>, <<"[{key1},{key2}]">>, <<"[]">>, <<"{key1}">>, <<"MIIEvQIBADANBgkqhkiG9w0BAQEFAASC">>}

\* JSON.parse of the texts above.  The SyntaxError of an unexpected token
\* quotes the text around the token in its message ("Unexpected token 'M',
\* "MIIEvQIBAD"... is not valid JSON"): quoted names the variable whose text
\* the message quotes.
JsonParse(text) ==
  CASE text = "[{key1},{key2}]" -> [ok |-> TRUE, array |-> TRUE, length |-> 2]
    [] text = "[]" -> [ok |-> TRUE, array |-> TRUE, length |-> 0]
    [] text = "{key1}" -> [ok |-> TRUE, array |-> FALSE, length |-> 0]
    [] OTHER -> [ok |-> FALSE,
                 error |-> [name |-> "SyntaxError",
                            message |-> "Unexpected token ... is not valid JSON",
                            quoted |-> "WECAN_WORKSPACE_KEYS"]]

\* parseWorkspaceKeys(), lines 203-220: the entries it logs.
ParseKeysLog(e) ==
  IF e = <<>> \/ e[1] = "" THEN <<>>
  ELSE LET j == JsonParse(e[1])
       IN IF ~j.ok
          THEN <<[level |-> "error", msg |-> "Failed to parse WECAN_WORKSPACE_KEYS:",
                  err |-> j.error]>>
          ELSE IF ~j.array
          THEN <<LogEntry("warn", "WECAN_WORKSPACE_KEYS must be a JSON array")>>
          ELSE <<>>

\* parseWorkspaceKeys() returns an array (TRUE) or undefined (FALSE).
KeysLoaded(e) ==
  /\ e # <<>>
  /\ e[1] # ""
  /\ JsonParse(e[1]).ok
  /\ JsonParse(e[1]).array

\* getSDKClient(), lines 234-252: log, parse the keys, log their number, call
\* WecanComply.create and suspend on it.
StartCreateWithKeys(c) ==
  /\ pc[c] = "idle"
  /\ sdkClient = 0
  /\ accessToken
  /\ LET k == env[1].WECAN_WORKSPACE_KEYS
         entries ==
           <<LogEntry("info", "Initializing WecanComply SDK client...")>>
           \o ParseKeysLog(k)
           \o (IF KeysLoaded(k)
               THEN <<LogEntry("info", "Loading ${workspaceKeys.length} workspace key(s) for encryption/decryption")>>
               ELSE <<>>)
     IN /\ Len(log) + Len(entries) <= MaxLog
        /\ log' = log \o entries
  /\ createCount' = createCount + 1
  /\ attempt' = [attempt EXCEPT ![c] = createCount + 1]
  /\ pc' = [pc EXCEPT ![c] = "awaitCreate"]
  /\ joined' = [joined EXCEPT ![c] = Pending]
  /\ afterReset' = FALSE
  /\ UNCHANGED <<accessToken, sdkClient, result, resolved, rejected,
                 resetDuring, staleHandle, lastFast>>

\* A variant of parseWorkspaceKeys() without the Array.isArray test: whatever
\* JSON.parse returns is handed on.
WorkspaceKeysAnyJson(e) ==
  IF e = <<>> \/ e[1] = "" THEN <<>>
  ELSE LET j == JsonParse(e[1])
       IN IF j.ok THEN <<j.length>> ELSE <<>>

\* parseWorkspaceKeys(), lines 203-220: what it returns, <<>> for undefined
\* and <<n>> for an array of n keys.
WorkspaceKeys(e) ==
  IF e = <<>> \/ e[1] = "" THEN <<>>
  ELSE LET j == JsonParse(e[1])
       IN IF j.ok /\ j.array THEN <<j.length>> ELSE <<>>

\* Lines 242-251: the WecanComply.create call, kept with its workspaceKeys
\* argument among the SDK calls made for c.
CreateCall(n) ==
  [op |-> "WecanComply.create", handle |-> n,
   args |-> [workspaceKeys |-> WorkspaceKeys(env[1].WECAN_WORKSPACE_KEYS)],
   result |-> <<>>]

\* getSDKClient() of lines 225-259 up to its first suspension point.
getSDKClientWithKeys(c) ==
  \/ ReturnStored(c) /\ UNCHANGED <<gatewayVars, configVars>>
  \/ ThrowNoToken(c) /\ UNCHANGED <<gatewayVars, configVars>>
  \/ /\ StartCreateWithKeys(c)
     /\ ops' = [ops EXCEPT ![c] = Append(@, CreateCall(createCount + 1))]
     /\ UNCHANGED <<nodeEnv, stage, req, error, response, store, configVars>>

KeysInit ==
  /\ ClientInit
  /\ nodeEnv = "production"
  /\ GatewayIdle
  /\ env \in {<<[WECAN_WORKSPACE_KEYS |-> k]>> : k \in KeysEnvValues}
  /\ fileConfig = <<>>
  /\ config = <<>>
  /\ server = "none"

KeysNext ==
  \/ \E c \in Callers : getSDKClientWithKeys(c)
  \/ \E c \in Callers : CreateResolved(c) /\ UNCHANGED <<gatewayVars, configVars>>
  \/ \E c \in Callers : CreateRejected(c) /\ UNCHANGED <<gatewayVars, configVars>>
  \/ \E c \in Callers : Respond(c) /\ UNCHANGED <<gatewayVars, configVars>>
  \/ resetSDKClient /\ UNCHANGED <<gatewayVars, configVars>>
  \/ UnauthorizedNotification /\ UNCHANGED <<gatewayVars, configVars>>

KeysSpec == KeysInit /\ [][KeysNext]_vars

(***************************************************************************)
(* The request gateway: routes/workspace.ts, routes/vault.ts, the health   *)
(* route, and the 404 handler and error middleware of index.ts.            *)
(***************************************************************************)

\* The JavaScript values a body or query field can hold, up to what the
\* handlers distinguish: typeof, truthiness and Array.isArray.
Kinds == {"undefined", "null", "emptyString", "string", "zero", "number",
          "false", "emptyArray", "array", "object"}

\* What the query parser can produce for one query parameter.
QueryKinds == {"undefined", "emptyString", "string", "array", "object"}

\* !v is false
Truthy(k) == k \in {"string", "number", "emptyArray", "array", "object"}

\* Array.isArray(v)
IsArray(k) == k \in {"emptyArray", "array"}

\* typeof v === 'string'
IsString(k) == k \in {"emptyString", "string"}

\* Routes that only forward path and optional query parameters.
PlainRoutes == {"getWorkspaceDetails", "getBusinessTypes", "getRelations",
                "getNetworkEntries", "getAllVaults", "getVaultPlaceholders",
                "getVaultAnswers", "lockVault", "unlockVault"}

\* Routes that check body or query fields before calling getSDKClient().
ValidatedRoutes == {"saveVaultAnswers", "downloadVaultFile", "createVault",
                    "shareVault"}

\* Routes whose handler calls one SDK operation, named like the route.
BackendRoutes == PlainRoutes \cup ValidatedRoutes

\* The fields of createVault's body that are only tested for truthiness.
VaultStringFields == {"name", "template_type", "push_category_uuid"}

\* The requests drawn for the gateway: every route, with every kind of value
\* in the checked field; for createVault one field at a time departs from a
\* well-formed body.
WellFormedVault ==
  [name |-> "string", template_type |-> "string",
   push_category_uuid |-> "string", relation_uuids |-> "array"]

VaultBodies ==
  {[WellFormedVault EXCEPT ![f] = k] :
      f \in VaultStringFields \cup {"relation_uuids"}, k \in Kinds}

\* The values of a non-empty mimetype query parameter, and the blobs that
\* downloadVaultFile may return.
MimeTypes == {"application/pdf", "image/png"}
Blobs == {"blobA", "blobB"}

RequestSpace ==
  {[route |-> r, input |-> <<>>] : r \in PlainRoutes \cup {"health", "unknown"}}
  \cup {[route |-> "saveVaultAnswers", input |-> [answers |-> k]] : k \in Kinds}
  \cup {[route |-> "downloadVaultFile", input |-> [mimetype |-> k], mimetype |-> ""] :
          k \in QueryKinds \ {"string"}}
  \cup {[route |-> "downloadVaultFile", input |-> [mimetype |-> "string"], mimetype |-> m] :
          m \in MimeTypes}
  \cup {[route |-> "shareVault", input |-> [relation_uuid |-> k]] : k \in Kinds}
  \cup {[route |-> "createVault", input |-> b] : b \in VaultBodies}

\* A variant that tests the mimetype for presence only, not for its type.
ValidationMessageNoTypeof(r) ==
  CASE r.route = "saveVaultAnswers" ->
         IF ~Truthy(r.input.answers) \/ ~IsArray(r.input.answers)
         THEN "answers must be an array" ELSE ""
    [] r.route = "downloadVaultFile" ->
         IF ~Truthy(r.input.mimetype)
         THEN "mimetype query parameter is required" ELSE ""
    [] r.route = "createVault" ->
         IF \/ ~Truthy(r.input.name)
            \/ ~Truthy(r.input.template_type)
            \/ ~Truthy(r.input.push_category_uuid)
            \/ ~Truthy(r.input.relation_uuids)
         THEN "name, template_type, push_category_uuid, and relation_uuids are required"
         ELSE IF ~IsArray(r.input.relation_uuids)
         THEN "relation_uuids must be an array" ELSE ""
    [] r.route = "shareVault" ->
         IF ~Truthy(r.input.relation_uuid)
         THEN "relation_uuid is required" ELSE ""
    [] OTHER -> ""

\* A variant of createVault's validation that tests Array.isArray first.
ValidationMessageArrayFirst(r) ==
  CASE r.route = "saveVaultAnswers" ->
         IF ~Truthy(r.input.answers) \/ ~IsArray(r.input.answers)
         THEN "answers must be an array" ELSE ""
    [] r.route = "downloadVaultFile" ->
         IF ~Truthy(r.input.mimetype) \/ ~IsString(r.input.mimetype)
         THEN "mimetype query parameter is required" ELSE ""
    [] r.route = "createVault" ->
         IF ~IsArray(r.input.relation_uuids)
         THEN "relation_uuids must be an array"
         ELSE IF \/ ~Truthy(r.input.name)
                 \/ ~Truthy(r.input.template_type)
                 \/ ~Truthy(r.input.push_category_uuid)
                 \/ ~Truthy(r.input.relation_uuids)
         THEN "name, template_type, push_category_uuid, and relation_uuids are required"
         ELSE ""
    [] r.route = "shareVault" ->
         IF ~Truthy(r.input.relation_uuid)
         THEN "relation_uuid is required" ELSE ""
    [] OTHER -> ""

\* The validation message of a validated route's request, "" if it passes:
\* vault.ts lines 180-185, 242-247, 411-423, 492-497.
ValidationMessage(r) ==
  CASE r.route = "saveVaultAnswers" ->
         IF ~Truthy(r.input.answers) \/ ~IsArray(r.input.answers)
         THEN "answers must be an array" ELSE ""
    [] r.route = "downloadVaultFile" ->
         IF ~Truthy(r.input.mimetype) \/ ~IsString(r.input.mimetype)
         THEN "mimetype query parameter is required" ELSE ""
    [] r.route = "createVault" ->
         IF \/ ~Truthy(r.input.name)
            \/ ~Truthy(r.input.template_type)
            \/ ~Truthy(r.input.push_category_uuid)
            \/ ~Truthy(r.input.relation_uuids)
         THEN "name, template_type, push_category_uuid, and relation_uuids are required"
         ELSE IF ~IsArray(r.input.relation_uuids)
         THEN "relation_uuids must be an array" ELSE ""
    [] r.route = "shareVault" ->
         IF ~Truthy(r.input.relation_uuid)
         THEN "relation_uuid is required" ELSE ""
    [] OTHER -> ""

\* The first argument of logger.error in a route's catch block.
LogLabel(route) ==
  CASE route = "getWorkspaceDetails" -> "Error getting workspace details:"
    [] route = "getBusinessTypes" -> "Error getting business types:"
    [] route = "getRelations" -> "Error getting relations:"
    [] route = "getNetworkEntries" -> "Error getting network entries:"
    [] route = "getAllVaults" -> "Error getting vaults:"
    [] route = "getVaultPlaceholders" -> "Error getting vault placeholders:"
    [] route = "getVaultAnswers" -> "Error getting vault answers:"
    [] route = "saveVaultAnswers" -> "Error saving vault answers:"
    [] route = "downloadVaultFile" -> "Error downloading vault file:"
    [] route = "lockVault" -> "Error locking vault:"
    [] route = "unlockVault" -> "Error unlocking vault:"
    [] route = "createVault" -> "Error creating vault:"
    [] route = "shareVault" -> "Error sharing vault:"

\* The `error` field of a route's error response.
ErrorLabel(route) ==
  CASE route = "getWorkspaceDetails" -> "Failed to get workspace details"
    [] route = "getBusinessTypes" -> "Failed to get business types"
    [] route = "getRelations" -> "Failed to get relations"
    [] route = "getNetworkEntries" -> "Failed to get network entries"
    [] route = "getAllVaults" -> "Failed to get vaults"
    [] route = "getVaultPlaceholders" -> "Failed to get vault placeholders"
    [] route = "getVaultAnswers" -> "Failed to get vault answers"
    [] route = "saveVaultAnswers" -> "Failed to save vault answers"
    [] route = "downloadVaultFile" -> "Failed to download vault file"
    [] route = "lockVault" -> "Failed to lock vault"
    [] route = "unlockVault" -> "Failed to unlock vault"
    [] route = "createVault" -> "Failed to create vault"
    [] route = "shareVault" -> "Failed to share vault"

\* HTTP statuses an SDK error may carry in error.response.status; 0 stands
\* for an error without one.
SdkStatuses == {0, 404, 409}

\* Errors thrown by the SDK: by WecanComply.create and by the operations.
SdkErrors == {[message |-> "SDK request failed", responseStatus |-> s] : s \in SdkStatuses}

\* The error thrown at sdk-client.ts line 16.
TokenError ==
  [message |-> "WECAN_ACCESS_TOKEN must be set in environment variables",
   responseStatus |-> 0]

\* An exception that is neither a validation failure nor thrown by the SDK:
\* reading the bytes of the downloaded blob fails.
UnexpectedErrors ==
  {[message |-> "blob.arrayBuffer is not a function", responseStatus |-> 0]}

\* Errors handed to the error middleware by the body parsers, with err.status
\* (0: none).
MiddlewareErrors ==
  {[message |-> "request body rejected", status |-> s] : s \in {0, 400, 413}}

\* A variant that reads the status of the error itself: error?.status || 500.
StatusOfErrorOr500(e) == IF "status" \in DOMAIN e THEN e.status ELSE 500

\* error?.response?.status || 500
StatusOr500(e) == IF e.responseStatus = 0 THEN 500 ELSE e.responseStatus

\* A variant of the catch block that sends the message alone.
ErrorResponseBare(route, e) ==
  [status |-> StatusOr500(e), type |-> "json", body |-> [error |-> e.message]]

\* The catch block of a route: status and envelope.
ErrorResponse(route, e) ==
  [status |-> StatusOr500(e), type |-> "json",
   body |-> [error |-> ErrorLabel(route), message |-> e.message]]

\* The early return of a validated route.
ValidationResponse(r) ==
  [status |-> 400, type |-> "json",
   body |-> [error |-> "Invalid request", message |-> ValidationMessage(r)]]

\* The answers requests of the round trip: a PUT with an array A of answers
\* and a GET, each on a workspace and a vault of the path.
AnswersRequests ==
  {[route |-> "saveVaultAnswers", input |-> [answers |-> "array"],
    params |-> [workspaceUuid |-> w, vaultId |-> v], answers |-> a] :
      w \in Workspaces, v \in Vaults, a \in Contents}
  \cup {[route |-> "getVaultAnswers", input |-> <<>>,
         params |-> [workspaceUuid |-> w, vaultId |-> v]] :
      w \in Workspaces, v \in Vaults}

\* A variant that passes the two path parameters in the other order.
OperationArgsSwapped(r) ==
  IF "params" \notin DOMAIN r THEN r.input
  ELSE IF r.route = "createVault"
  THEN [workspaceUuid |-> r.params.workspaceUuid, name |-> r.input.name,
        template_type |-> r.input.template_type,
        push_category_uuid |-> r.input.push_category_uuid,
        relation_uuids |-> r.input.relation_uuids]
  ELSE IF r.route = "saveVaultAnswers"
  THEN [workspaceUuid |-> r.params.vaultId, vaultId |-> r.params.workspaceUuid,
        answers |-> r.answers]
  ELSE [workspaceUuid |-> r.params.vaultId, vaultId |-> r.params.workspaceUuid]

\* The arguments a handler passes to its SDK operation: vault.ts line 188,
\* client.saveVaultAnswers(workspaceUuid, vaultId, answers), and line 116,
\* client.getVaultAnswers(workspaceUuid, vaultId); lines 426-432,
\* client.createVault(workspaceUuid, name, template_type, push_category_uuid,
\* relation_uuids); for the requests drawn without path parameters, the
\* checked fields.
OperationArgs(r) ==
  IF "params" \notin DOMAIN r THEN r.input
  ELSE IF r.route = "createVault"
  THEN [workspaceUuid |-> r.params.workspaceUuid, name |-> r.input.name,
        template_type |-> r.input.template_type,
        push_category_uuid |-> r.input.push_category_uuid,
        relation_uuids |-> r.input.relation_uuids]
  ELSE IF r.route = "saveVaultAnswers"
  THEN [workspaceUuid |-> r.params.workspaceUuid, vaultId |-> r.params.vaultId,
        answers |-> r.answers]
  ELSE [workspaceUuid |-> r.params.workspaceUuid, vaultId |-> r.params.vaultId]

\* What an SDK operation may resolve with: a blob for downloadVaultFile, and
\* one datum named after the operation for the others.
OperationResults(r) ==
  IF r.route = "downloadVaultFile" THEN Blobs ELSE {r.route}

\* A variant that sends every result, the downloaded blob included, as JSON.
SuccessResponseJson(r, v) ==
  [status |-> 200, type |-> "json", body |-> [data |-> v]]

\* What a route sends when its SDK operation has resolved with v.
SuccessResponse(r, v) ==
  CASE r.route = "saveVaultAnswers" ->
         [status |-> 200, type |-> "json",
          body |-> [success |-> TRUE, message |-> "Answers saved successfully"]]
    [] r.route = "lockVault" ->
         [status |-> 200, type |-> "json",
          body |-> [success |-> TRUE, message |-> "Vault locked successfully"]]
    [] r.route = "unlockVault" ->
         [status |-> 200, type |-> "json",
          body |-> [success |-> TRUE, message |-> "Vault unlocked successfully"]]
    [] r.route = "shareVault" ->
         [status |-> 200, type |-> "json",
          body |-> [success |-> TRUE, message |-> "Vault shared successfully"]]
    [] r.route = "downloadVaultFile" ->
         [status |-> 200, type |-> r.mimetype, body |-> [bytes |-> v]]
    [] OTHER ->
         [status |-> 200, type |-> "json", body |-> [data |-> v]]

\* The health route's two bodies.
HealthyResponse ==
  [status |-> 200, type |-> "json",
   body |-> [status |-> "healthy", timestamp |-> "now",
             service |-> "wecan-comply-middleware"]]

UnhealthyResponse(e) ==
  [status |-> 503, type |-> "json",
   body |-> [status |-> "unhealthy", timestamp |-> "now",
             service |-> "wecan-comply-middleware", error |-> e.message]]

\* index.ts lines 57-62.
NotFoundResponse ==
  [status |-> 404, type |-> "json",
   body |-> [error |-> "Not Found", message |-> "Route ${req.method} ${req.path} not found"]]

\* index.ts lines 65-71.
MiddlewareResponse(err) ==
  [status |-> IF err.status = 0 THEN 500 ELSE err.status, type |-> "json",
   body |-> [error |-> "Internal Server Error",
             message |-> IF nodeEnv = "development" THEN err.message
                         ELSE "An error occurred"]]

\* The requests being handled.  The handlers share no state but the lifecycle
\* manager, whose concurrent use is the subject of Spec; GatewaySpec follows
\* the requests one at a time.
Open == {c \in Callers : stage[c] # "free"}

\* index.ts lines 37-43: a request passes the body parsers and is logged; it
\* takes the lowest free slot.
Arrive(c) ==
  /\ stage[c] = "free"
  /\ \A d \in Callers : c <= d
  /\ Open = {}
  /\ \E r \in RequestSpace : req' = [req EXCEPT ![c] = <<r>>]
  /\ Logged("info", "${req.method} ${req.path}")
  /\ stage' = [stage EXCEPT ![c] = "routed"]
  /\ UNCHANGED <<clientVars, nodeEnv, error, response, ops, configVars, store>>

\* index.ts lines 65-71: a body parser rejects the request and the error
\* middleware answers.
MiddlewareError(c) ==
  /\ stage[c] = "free"
  /\ \A d \in Callers : c <= d
  /\ Open = {}
  /\ Logged("error", "Unhandled error:")
  /\ \E err \in MiddlewareErrors :
       /\ error' = [error EXCEPT ![c] = <<err>>]
       /\ response' = [response EXCEPT ![c] = <<MiddlewareResponse(err)>>]
  /\ stage' = [stage EXCEPT ![c] = "done"]
  /\ UNCHANGED <<clientVars, nodeEnv, req, ops, configVars, store>>

\* index.ts lines 57-62: no route matches.
NotFound(c) ==
  /\ stage[c] = "routed"
  /\ req[c][1].route = "unknown"
  /\ response' = [response EXCEPT ![c] = <<NotFoundResponse>>]
  /\ stage' = [stage EXCEPT ![c] = "done"]
  /\ UNCHANGED <<clientVars, log, nodeEnv, req, error, ops, configVars, store>>

\* A variant of the validation branch without `return`: the 400 is sent and
\* the handler goes on to `await getSDKClient()`.
RejectInvalidNoReturn(c) ==
  /\ stage[c] = "routed"
  /\ req[c][1].route \in ValidatedRoutes
  /\ ValidationMessage(req[c][1]) # ""
  /\ response' = [response EXCEPT ![c] = <<ValidationResponse(req[c][1])>>]
  /\ getSDKClient(c)
  /\ error' = [error EXCEPT
                 ![c] = IF sdkClient = 0 /\ ~accessToken THEN <<TokenError>> ELSE <<>>]
  /\ stage' = [stage EXCEPT ![c] = "client"]
  /\ UNCHANGED <<nodeEnv, req, ops, configVars, store>>

\* The early `return res.status(400)` of a validated route.
RejectInvalid(c) ==
  /\ stage[c] = "routed"
  /\ req[c][1].route \in ValidatedRoutes
  /\ ValidationMessage(req[c][1]) # ""
  /\ response' = [response EXCEPT ![c] = <<ValidationResponse(req[c][1])>>]
  /\ stage' = [stage EXCEPT ![c] = "done"]
  /\ UNCHANGED <<clientVars, log, nodeEnv, req, error, ops, configVars, store>>

\* A handler reaches `await getSDKClient()`: the call runs to its first
\* suspension point in the same step.
CallClient(c) ==
  /\ stage[c] = "routed"
  /\ req[c][1].route \in BackendRoutes \cup {"health"}
  /\ ValidationMessage(req[c][1]) = ""
  /\ getSDKClient(c)
  /\ error' = [error EXCEPT
                 ![c] = IF sdkClient = 0 /\ ~accessToken THEN <<TokenError>> ELSE <<>>]
  /\ stage' = [stage EXCEPT ![c] = "client"]
  /\ UNCHANGED <<nodeEnv, req, response, ops, configVars, store>>

\* WecanComply.create resolves for a request's getSDKClient() call.
ClientCreated(c) ==
  /\ CreateResolved(c)
  /\ UNCHANGED <<gatewayVars, configVars>>

\* WecanComply.create rejects with some SDK error, which getSDKClient() rethrows.
ClientFailed(c) ==
  /\ CreateRejected(c)
  /\ \E e \in SdkErrors : error' = [error EXCEPT ![c] = <<e>>]
  /\ UNCHANGED <<nodeEnv, stage, req, response, ops, configVars, store>>

\* Health route, README.md lines 338-344: getSDKClient() returned.
HealthOk(c) ==
  /\ stage[c] = "client"
  /\ req[c][1].route = "health"
  /\ pc[c] = "returned"
  /\ response' = [response EXCEPT ![c] = <<HealthyResponse>>]
  /\ stage' = [stage EXCEPT ![c] = "done"]
  /\ UNCHANGED <<clientVars, log, nodeEnv, req, error, ops, configVars, store>>

\* A variant of the health route's catch block that answers 200.
HealthFailHealthy(c) ==
  /\ stage[c] = "client"
  /\ req[c][1].route = "health"
  /\ pc[c] = "thrown"
  /\ Logged("error", "Health check failed:")
  /\ response' = [response EXCEPT ![c] = <<HealthyResponse>>]
  /\ stage' = [stage EXCEPT ![c] = "done"]
  /\ UNCHANGED <<clientVars, nodeEnv, req, error, ops, configVars, store>>

\* Health route, README.md lines 345-353: getSDKClient() threw.
HealthFail(c) ==
  /\ stage[c] = "client"
  /\ req[c][1].route = "health"
  /\ pc[c] = "thrown"
  /\ Logged("error", "Health check failed:")
  /\ response' = [response EXCEPT ![c] = <<UnhealthyResponse(error[c][1])>>]
  /\ stage' = [stage EXCEPT ![c] = "done"]
  /\ UNCHANGED <<clientVars, nodeEnv, req, error, ops, configVars, store>>

\* A variant of the handler that calls its SDK operation twice.
InvokeBackendTwice(c) ==
  /\ stage[c] = "client"
  /\ req[c][1].route \in BackendRoutes
  /\ pc[c] = "returned"
  /\ LET o == [op |-> req[c][1].route, handle |-> result[c],
               args |-> OperationArgs(req[c][1]), result |-> <<>>]
     IN ops' = [ops EXCEPT ![c] = @ \o <<o, o>>]
  /\ stage' = [stage EXCEPT ![c] = "backend"]
  /\ UNCHANGED <<clientVars, log, nodeEnv, req, error, response, configVars, store>>

\* A variant that does not await getSDKClient(): the operation is called on
\* whatever the create call in flight will give.
InvokeBackendNotAwaited(c) ==
  /\ stage[c] = "client"
  /\ req[c][1].route \in BackendRoutes
  /\ pc[c] \in {"returned", "awaitCreate"}
  /\ ops' = [ops EXCEPT ![c] = Append(@, [op |-> req[c][1].route,
                                          handle |-> IF pc[c] = "returned"
                                                     THEN result[c] ELSE attempt[c],
                                          args |-> OperationArgs(req[c][1]),
                                          result |-> <<>>])]
  /\ stage' = [stage EXCEPT ![c] = "backend"]
  /\ UNCHANGED <<clientVars, log, nodeEnv, req, error, response, configVars, store>>

\* A route handler resumes with the client and calls its SDK operation.
InvokeBackend(c) ==
  /\ stage[c] = "client"
  /\ req[c][1].route \in BackendRoutes
  /\ pc[c] = "returned"
  /\ ops' = [ops EXCEPT ![c] = Append(@, [op |-> req[c][1].route,
                                          handle |-> result[c],
                                          args |-> OperationArgs(req[c][1]),
                                          result |-> <<>>])]
  /\ stage' = [stage EXCEPT ![c] = "backend"]
  /\ UNCHANGED <<clientVars, log, nodeEnv, req, error, response, configVars, store>>

\* A route handler resumes in its catch block with the error of
\* getSDKClient().
InitFailureCaught(c) ==
  /\ stage[c] = "client"
  /\ req[c][1].route \in BackendRoutes
  /\ pc[c] = "thrown"
  /\ Logged("error", LogLabel(req[c][1].route))
  /\ response' = [response EXCEPT
                    ![c] = <<ErrorResponse(req[c][1].route, error[c][1])>>]
  /\ stage' = [stage EXCEPT ![c] = "done"]
  /\ UNCHANGED <<clientVars, nodeEnv, req, error, ops, configVars, store>>

\* The handler resumes with the value v of its SDK operation and sends it.
Resolution(c, v) ==
  /\ stage[c] = "backend"
  /\ ops' = [ops EXCEPT ![c][1].result = <<v>>]
  /\ response' = [response EXCEPT ![c] = <<SuccessResponse(req[c][1], v)>>]
  /\ stage' = [stage EXCEPT ![c] = "done"]
  /\ UNCHANGED <<clientVars, log, nodeEnv, req, error, configVars>>

\* The SDK operation resolves and the handler sends the result.
BackendResolved(c) ==
  /\ stage[c] = "backend"
  /\ \E v \in OperationResults(req[c][1]) : Resolution(c, v)
  /\ UNCHANGED store

\* The SDK operation resolves against a backend that stores answers:
\* saveVaultAnswers replaces the answers of its (workspace, vault),
\* getVaultAnswers resolves with them.
FakeResolved(c) ==
  /\ stage[c] = "backend"
  /\ LET o == ops[c][1]
         k == <<o.args.workspaceUuid, o.args.vaultId>>
     IN IF o.op = "saveVaultAnswers"
        THEN /\ store' = [store EXCEPT ![k] = o.args.answers]
             /\ Resolution(c, "saved")
        ELSE /\ store' = store
             /\ Resolution(c, store[k])

\* vault.ts lines 250-265: downloadVaultFile resolved, but reading the bytes
\* with blob.arrayBuffer() throws; the handler's catch block answers.
BufferRejected(c) ==
  /\ stage[c] = "backend"
  /\ req[c][1].route = "downloadVaultFile"
  /\ Logged("error", LogLabel(req[c][1].route))
  /\ \E v \in OperationResults(req[c][1]) :
       ops' = [ops EXCEPT ![c][1].result = <<v>>]
  /\ \E e \in UnexpectedErrors :
       /\ error' = [error EXCEPT ![c] = <<e>>]
       /\ response' = [response EXCEPT ![c] = <<ErrorResponse(req[c][1].route, e)>>]
  /\ stage' = [stage EXCEPT ![c] = "done"]
  /\ UNCHANGED <<clientVars, nodeEnv, req, configVars, store>>

\* The SDK operation rejects and the handler's catch block answers.
BackendRejected(c) ==
  /\ stage[c] = "backend"
  /\ Logged("error", LogLabel(req[c][1].route))
  /\ \E e \in SdkErrors :
       /\ error' = [error EXCEPT ![c] = <<e>>]
       /\ response' = [response EXCEPT ![c] = <<ErrorResponse(req[c][1].route, e)>>]
  /\ stage' = [stage EXCEPT ![c] = "done"]
  /\ UNCHANGED <<clientVars, nodeEnv, req, ops, configVars, store>>

\* The exchange is over; the slot is free for the next request.
Finish(c) ==
  /\ stage[c] = "done"
  /\ IF pc[c] \in {"returned", "thrown"}
     THEN Respond(c)
     ELSE UNCHANGED <<clientVars, log>>
  /\ stage' = [stage EXCEPT ![c] = "free"]
  /\ req' = [req EXCEPT ![c] = <<>>]
  /\ error' = [error EXCEPT ![c] = <<>>]
  /\ response' = [response EXCEPT ![c] = <<>>]
  /\ ops' = [ops EXCEPT ![c] = <<>>]
  /\ UNCHANGED <<nodeEnv, configVars, store>>

\* A PUT or GET answers request arrives, one request at a time.
ArriveAnswers(c) ==
  /\ stage[c] = "free"
  /\ \A d \in Callers : c <= d
  /\ Open = {}
  /\ \E r \in AnswersRequests : req' = [req EXCEPT ![c] = <<r>>]
  /\ Logged("info", "${req.method} ${req.path}")
  /\ stage' = [stage EXCEPT ![c] = "routed"]
  /\ UNCHANGED <<clientVars, nodeEnv, error, response, ops, configVars, store>>

GatewayInit ==
  /\ ClientInit
  /\ nodeEnv \in {"development", "production"}
  /\ GatewayIdle
  /\ ConfigIdle

GatewayNext ==
  \/ \E c \in Callers : Arrive(c)
  \/ \E c \in Callers : MiddlewareError(c)
  \/ \E c \in Callers : NotFound(c)
  \/ \E c \in Callers : RejectInvalid(c)
  \/ \E c \in Callers : CallClient(c)
  \/ \E c \in Callers : ClientCreated(c)
  \/ \E c \in Callers : ClientFailed(c)
  \/ \E c \in Callers : HealthOk(c)
  \/ \E c \in Callers : HealthFail(c)
  \/ \E c \in Callers : InvokeBackend(c)
  \/ \E c \in Callers : InitFailureCaught(c)
  \/ \E c \in Callers : BackendResolved(c)
  \/ \E c \in Callers : BackendRejected(c)
  \/ \E c \in Callers : BufferRejected(c)
  \/ \E c \in Callers : Finish(c)

GatewaySpec == GatewayInit /\ [][GatewayNext]_vars

(***************************************************************************)
(* Requests handled concurrently.  Each handler runs to its next await in  *)
(* one step; the steps of different requests interleave.  The requests are  *)
(* drawn from one route of each shape.                                      *)
(***************************************************************************)

ConcurrentRequests ==
  {r \in RequestSpace :
     \/ r.route \in {"health", "unknown"}
     \/ r.route = "downloadVaultFile" /\ r.mimetype = "image/png"
     \/ r.route = "shareVault" /\ r.input.relation_uuid = "undefined"}

\* A variant in which a request is taken up only when no other is open.
ArriveConcurrentOneByOne(c) ==
  /\ stage[c] = "free"
  /\ Open = {}
  /\ \E r \in ConcurrentRequests : req' = [req EXCEPT ![c] = <<r>>]
  /\ Logged("info", "${req.method} ${req.path}")
  /\ stage' = [stage EXCEPT ![c] = "routed"]
  /\ UNCHANGED <<clientVars, nodeEnv, error, response, ops, configVars, store>>

\* index.ts lines 37-43: a request arrives while others may be open.
ArriveConcurrent(c) ==
  /\ stage[c] = "free"
  /\ \E r \in ConcurrentRequests : req' = [req EXCEPT ![c] = <<r>>]
  /\ Logged("info", "${req.method} ${req.path}")
  /\ stage' = [stage EXCEPT ![c] = "routed"]
  /\ UNCHANGED <<clientVars, nodeEnv, error, response, ops, configVars, store>>

\* The synchronous steps of the handler of c: from routing to the first
\* await, and from a settled await to the next await or to the response.
HandlerStep(c) ==
  \/ NotFound(c)
  \/ RejectInvalid(c)
  \/ CallClient(c)
  \/ HealthOk(c)
  \/ HealthFail(c)
  \/ InvokeBackend(c)
  \/ InitFailureCaught(c)

\* The WecanComply.create call that c awaits settles.
CreateSettles(c) == ClientCreated(c) \/ ClientFailed(c)

\* The SDK operation that c awaits settles.
OperationSettles(c) == BackendResolved(c) \/ BackendRejected(c) \/ BufferRejected(c)

ConcurrentInit ==
  /\ ClientInit
  /\ nodeEnv = "production"
  /\ GatewayIdle
  /\ ConfigIdle

ConcurrentNext ==
  \/ \E c \in Callers : ArriveConcurrent(c)
  \/ \E c \in Callers : HandlerStep(c)
  \/ \E c \in Callers : CreateSettles(c)
  \/ \E c \in Callers : OperationSettles(c)
  \/ \E c \in Callers : Finish(c)

\* The event loop runs every handler that can continue, and every call that
\* is awaited settles.
ConcurrentFairness ==
  \A c \in Callers :
    /\ WF_vars(HandlerStep(c))
    /\ WF_vars(CreateSettles(c))
    /\ WF_vars(OperationSettles(c))

ConcurrentSpec == ConcurrentInit /\ [][ConcurrentNext]_vars /\ ConcurrentFairness

(***************************************************************************)
(* The routes on top of the manager while resetSDKClient() may be called:  *)
(* requests are open at the same time, and a reset may fall between any    *)
(* two steps of a handler.                                                 *)
(***************************************************************************)

\* Two routes that forward their path parameters.
ResetRequests ==
  {r \in RequestSpace : r.route \in {"getWorkspaceDetails", "getVaultAnswers"}}

\* index.ts lines 37-43: a request arrives while others may be open.
ArriveReset(c) ==
  /\ stage[c] = "free"
  /\ \E r \in ResetRequests : req' = [req EXCEPT ![c] = <<r>>]
  /\ Logged("info", "${req.method} ${req.path}")
  /\ stage' = [stage EXCEPT ![c] = "routed"]
  /\ UNCHANGED <<clientVars, nodeEnv, error, response, ops, configVars, store>>

\* resetSDKClient() is called between two steps of the handlers.
ResetBetween == resetSDKClient /\ UNCHANGED <<gatewayVars, configVars>>

ResetInit ==
  /\ ClientInit
  /\ nodeEnv = "production"
  /\ GatewayIdle
  /\ ConfigIdle

ResetNext ==
  \/ \E c \in Callers : ArriveReset(c)
  \/ \E c \in Callers : CallClient(c)
  \/ \E c \in Callers : ClientCreated(c)
  \/ \E c \in Callers : ClientFailed(c)
  \/ \E c \in Callers : InvokeBackend(c)
  \/ \E c \in Callers : InitFailureCaught(c)
  \/ \E c \in Callers : BackendResolved(c)
  \/ \E c \in Callers : BackendRejected(c)
  \/ \E c \in Callers : Finish(c)
  \/ ResetBetween

ResetSpec == ResetInit /\ [][ResetNext]_vars

(***************************************************************************)
(* The order of the middleware of index.ts: the body parsers (lines 33-34) *)
(* run before the request is logged and before any route or the 404        *)
(* handler is tried.  Here the request a parser rejects is kept in req, so *)
(* that its method and path can be told; the requests are followed one at  *)
(* a time.                                                                 *)
(***************************************************************************)

\* Requests of a route without handler, of the health probe and of a
\* validated route.
RoutingRequests ==
  {r \in RequestSpace :
     \/ r.route \in {"unknown", "health"}
     \/ r.route = "shareVault" /\ r.input.relation_uuid \in {"undefined", "string"}}

\* index.ts lines 33-34 and 65-71: express.json() or express.urlencoded()
\* rejects the body of request r, and the error middleware answers.
ParserRejects(c) ==
  /\ stage[c] = "free"
  /\ \A d \in Callers : c <= d
  /\ Open = {}
  /\ \E r \in RoutingRequests : req' = [req EXCEPT ![c] = <<r>>]
  /\ Logged("error", "Unhandled error:")
  /\ \E err \in MiddlewareErrors :
       /\ err.status # 0
       /\ error' = [error EXCEPT ![c] = <<err>>]
       /\ response' = [response EXCEPT ![c] = <<MiddlewareResponse(err)>>]
  /\ stage' = [stage EXCEPT ![c] = "done"]
  /\ UNCHANGED <<clientVars, nodeEnv, ops, configVars, store>>

\* index.ts lines 37-43: the parsers accepted the request and it is logged.
ArriveRouting(c) ==
  /\ stage[c] = "free"
  /\ \A d \in Callers : c <= d
  /\ Open = {}
  /\ \E r \in RoutingRequests : req' = [req EXCEPT ![c] = <<r>>]
  /\ Logged("info", "${req.method} ${req.path}")
  /\ stage' = [stage EXCEPT ![c] = "routed"]
  /\ UNCHANGED <<clientVars, nodeEnv, error, response, ops, configVars, store>>

RoutingInit ==
  /\ ClientInit
  /\ nodeEnv \in {"development", "production"}
  /\ GatewayIdle
  /\ ConfigIdle

RoutingNext ==
  \/ \E c \in Callers : ParserRejects(c)
  \/ \E c \in Callers : ArriveRouting(c)
  \/ \E c \in Callers : NotFound(c)
  \/ \E c \in Callers : RejectInvalid(c)
  \/ \E c \in Callers : CallClient(c)
  \/ \E c \in Callers : ClientCreated(c)
  \/ \E c \in Callers : ClientFailed(c)
  \/ \E c \in Callers : HealthOk(c)
  \/ \E c \in Callers : HealthFail(c)
  \/ \E c \in Callers : InvokeBackend(c)
  \/ \E c \in Callers : InitFailureCaught(c)
  \/ \E c \in Callers : BackendResolved(c)
  \/ \E c \in Callers : BackendRejected(c)
  \/ \E c \in Callers : Finish(c)

RoutingSpec == RoutingInit /\ [][RoutingNext]_vars

(***************************************************************************)
(* POST /:workspaceUuid/vaults (vault.ts lines 406-441) with bodies in     *)
(* which several fields depart from the declared types at once.            *)
(***************************************************************************)

\* The kinds drawn for the three string fields and for relation_uuids.
VaultFieldKinds == {"undefined", "emptyString", "string", "number"}
VaultRelationKinds == {"undefined", "emptyString", "string", "object",
                       "emptyArray", "array"}

CreateVaultRequests ==
  {[route |-> "createVault",
    input |-> [name |-> n, template_type |-> t, push_category_uuid |-> p,
               relation_uuids |-> u],
    params |-> [workspaceUuid |-> w]] :
      n \in VaultFieldKinds, t \in VaultFieldKinds, p \in VaultFieldKinds,
      u \in VaultRelationKinds, w \in Workspaces}

\* index.ts lines 37-43: a createVault request arrives, one at a time.
ArriveCreateVault(c) ==
  /\ stage[c] = "free"
  /\ \A d \in Callers : c <= d
  /\ Open = {}
  /\ \E r \in CreateVaultRequests : req' = [req EXCEPT ![c] = <<r>>]
  /\ Logged("info", "${req.method} ${req.path}")
  /\ stage' = [stage EXCEPT ![c] = "routed"]
  /\ UNCHANGED <<clientVars, nodeEnv, error, response, ops, configVars, store>>

CreateVaultInit ==
  /\ ClientInit
  /\ nodeEnv = "production"
  /\ GatewayIdle
  /\ ConfigIdle

CreateVaultNext ==
  \/ \E c \in Callers : ArriveCreateVault(c)
  \/ \E c \in Callers : RejectInvalid(c)
  \/ \E c \in Callers : CallClient(c)
  \/ \E c \in Callers : ClientCreated(c)
  \/ \E c \in Callers : ClientFailed(c)
  \/ \E c \in Callers : InvokeBackend(c)
  \/ \E c \in Callers : InitFailureCaught(c)
  \/ \E c \in Callers : BackendResolved(c)
  \/ \E c \in Callers : BackendRejected(c)
  \/ \E c \in Callers : Finish(c)

CreateVaultSpec == CreateVaultInit /\ [][CreateVaultNext]_vars

\* The answers routes in front of a backend that stores answers.
RoundTripInit ==
  /\ ClientInit
  /\ nodeEnv = "production"
  /\ GatewayIdle
  /\ ConfigIdle

RoundTripNext ==
  \/ \E c \in Callers : ArriveAnswers(c)
  \/ \E c \in Callers : CallClient(c)
  \/ \E c \in Callers : ClientCreated(c)
  \/ \E c \in Callers : ClientFailed(c)
  \/ \E c \in Callers : InvokeBackend(c)
  \/ \E c \in Callers : InitFailureCaught(c)
  \/ \E c \in Callers : FakeResolved(c)
  \/ \E c \in Callers : BackendRejected(c)
  \/ \E c \in Callers : Finish(c)

RoundTripSpec == RoundTripInit /\ [][RoundTripNext]_vars

(***************************************************************************)
(* The configuration, config/index.ts.  process.env maps a variable to     *)
(* <<>> (not set) or <<value>>.  The values of the numeric variables are    *)
(* sequences of characters, so that parseInt and String are computed; the   *)
(* other values are strings.                                                *)
(***************************************************************************)

\* The characters of the numeric values.
Digits == {"0", "1", "2", "3", "4", "5", "6", "7", "8", "9"}

DigitValue(ch) ==
  CASE ch = "0" -> 0 [] ch = "1" -> 1 [] ch = "2" -> 2 [] ch = "3" -> 3
    [] ch = "4" -> 4 [] ch = "5" -> 5 [] ch = "6" -> 6 [] ch = "7" -> 7
    [] ch = "8" -> 8 [] ch = "9" -> 9

DigitChar(d) == CHOOSE ch \in Digits : DigitValue(ch) = d

\* String(n) of a non-negative integer: its decimal numeral.
RECURSIVE String(_)
String(n) ==
  IF n < 10 THEN <<DigitChar(n)>>
  ELSE Append(String(n \div 10), DigitChar(n % 10))

\* The value of the longest prefix of digits of s after the value acc, and
\* whether a digit was read.
RECURSIVE ReadDigits(_, _, _)
ReadDigits(s, acc, any) ==
  IF s # <<>> /\ Head(s) \in Digits
  THEN ReadDigits(Tail(s), 10 * acc + DigitValue(Head(s)), TRUE)
  ELSE [value |-> acc, any |-> any]

\* parseInt(s, 10): leading white space is skipped, a sign is read, then the
\* longest prefix of decimal digits.  The result is <<n>>, or <<>> for NaN
\* when there is no digit.
RECURSIVE ParseInt(_)
ParseInt(s) ==
  IF s # <<>> /\ Head(s) = " " THEN ParseInt(Tail(s))
  ELSE LET neg == s # <<>> /\ Head(s) = "-"
           rest == IF s # <<>> /\ Head(s) \in {"-", "+"} THEN Tail(s) ELSE s
           d == ReadDigits(rest, 0, FALSE)
       IN IF ~d.any THEN <<>>
          ELSE IF neg THEN <<0 - d.value>> ELSE <<d.value>>

\* process.env.X || d for a string value: an unset or empty variable gives d.
EnvOr(e, d) == IF e # <<>> /\ e[1] # "" THEN e[1] ELSE d

\* parseInt(process.env.X || String(d), 10)
EnvIntOr(e, d) == ParseInt(IF e # <<>> /\ e[1] # <<>> THEN e[1] ELSE String(d))

\* A variant that enables CORS on the value 'true' only.
CorsEnabledOnTrue(e) == e = <<"true">>

\* process.env.CORS_ENABLED !== 'false'
CorsEnabled(e) == e # <<"false">>

\* The values of the numeric variables that are looked at.
NumericEnvValues ==
  {<<>>, << <<>> >>, << <<"8", "0", "8", "0">> >>, << <<"a", "b", "c">> >>}

\* The values of process.env that are looked at.
EnvSpace ==
  [PORT : NumericEnvValues,
   HOST : {<<>>, <<"">>, <<"127.0.0.1">>},
   WECAN_WORKSPACE_URL_TEMPLATE : {<<>>, <<"https://{workspace}.test">>},
   WECAN_TIMEOUT_MS : {<<>>, << <<"5", "0", "0", "0">> >>, << <<" ", "7", "s">> >>},
   WECAN_RETRIES : {<<>>, << <<"0">> >>, << <<"x">> >>},
   LOG_LEVEL : {<<>>, <<"">>, <<"debug">>},
   LOG_FORMAT : {<<>>, <<"console">>},
   CORS_ENABLED : {<<>>, <<"false">>, <<"true">>, <<"0">>},
   CORS_ORIGIN : {<<>>, <<"https://app.test">>},
   HTTPS_ENABLED : {<<>>, <<"true">>},
   HTTPS_KEY_PATH : {<<>>, <<"/certs/key.pem">>},
   HTTPS_CERT_PATH : {<<>>, <<"/certs/cert.pem">>},
   WECAN_ACCESS_TOKEN : {<<>>, <<"token">>}]

\* The contents of config/default.json that are looked at: the documented
\* defaults, with CORS enabled or disabled.
FileSpace ==
  {[server |-> [port |-> 3000, host |-> "0.0.0.0"],
    wecanComply |-> [workspaceUrlTemplate |-> "https://{workspace}.wecan",
                     timeoutMs |-> 30000, retries |-> 2],
    logging |-> [level |-> "info", format |-> "json"],
    cors |-> [enabled |-> b, origin |-> "*"]] : b \in BOOLEAN}

\* The exported config object, lines 45-63.
ResolvedConfig(e, f) ==
  [server |-> [port |-> EnvIntOr(e.PORT, f.server.port),
               host |-> EnvOr(e.HOST, f.server.host)],
   wecanComply |->
     [workspaceUrlTemplate |->
        EnvOr(e.WECAN_WORKSPACE_URL_TEMPLATE, f.wecanComply.workspaceUrlTemplate),
      timeoutMs |-> EnvIntOr(e.WECAN_TIMEOUT_MS, f.wecanComply.timeoutMs),
      retries |-> EnvIntOr(e.WECAN_RETRIES, f.wecanComply.retries)],
   logging |-> [level |-> EnvOr(e.LOG_LEVEL, f.logging.level),
                format |-> EnvOr(e.LOG_FORMAT, f.logging.format)],
   cors |-> [enabled |-> CorsEnabled(e.CORS_ENABLED),
             origin |-> EnvOr(e.CORS_ORIGIN, f.cors.origin)]]

\* sensitiveConfig.accessToken, lines 66-68, as getSDKClient() tests it.
TokenSet(e) == e.WECAN_ACCESS_TOKEN # <<>> /\ e.WECAN_ACCESS_TOKEN[1] # ""

\* The module is evaluated: config is built from the file and the environment.
Resolve ==
  /\ config = <<>>
  /\ env # <<>>
  /\ config' = <<ResolvedConfig(env[1], fileConfig[1])>>
  /\ UNCHANGED <<clientVars, log, gatewayVars, env, fileConfig, server>>

\* server.listen(port): Node rejects a port that is not an integer of
\* 0..65535 with ERR_SOCKET_BAD_PORT.
ValidPort(p) == p # <<>> /\ p[1] \in 0..65535

\* index.ts lines 73-143: the server is started from the resolved
\* configuration.  With https enabled and a path missing the process exits;
\* otherwise the HTTPS server is started, or the process exits when the
\* files cannot be read; without https the plain HTTP server is started.  A
\* listen call with an invalid port throws.
StartServer ==
  /\ config # <<>>
  /\ server = "none"
  /\ LET s == config[1].server
     IN IF "https" \in DOMAIN s /\ s.https.enabled
        THEN IF s.https.keyPath = "" \/ s.https.certPath = ""
             THEN /\ Logged("error", "HTTPS is enabled but HTTPS_KEY_PATH and HTTPS_CERT_PATH are not set")
                  /\ server' = "exited"
             ELSE \/ /\ Logged("error", "Failed to start HTTPS server:")
                     /\ server' = "exited"
                  \/ /\ ValidPort(s.port)
                     /\ Logged("info", "HTTPS server started on https://${HOST}:${PORT}")
                     /\ server' = "https"
        ELSE IF ValidPort(s.port)
             THEN /\ Logged("info", "HTTP server started on http://${HOST}:${PORT}")
                  /\ server' = "http"
             ELSE /\ server' = "crashed"
                  /\ UNCHANGED log
  /\ UNCHANGED <<clientVars, gatewayVars, env, fileConfig, config>>

ConfigInit ==
  /\ ClientInit
  /\ nodeEnv = "production"
  /\ GatewayIdle
  /\ env \in {<<e>> : e \in EnvSpace}
  /\ fileConfig \in {<<f>> : f \in FileSpace}
  /\ accessToken = TokenSet(env[1])
  /\ config = <<>>
  /\ server = "none"

ConfigNext ==
  \/ Resolve
  \/ StartServer

ConfigSpec == ConfigInit /\ [][ConfigNext]_vars

(***************************************************************************)
(* Derived notions used by the properties.                                 *)
(***************************************************************************)

\* The lifecycle state of section 4.4, read off the manager's variables.
LifecycleState ==
  IF sdkClient # 0 THEN "Ready"
  ELSE IF Pending # {} THEN "Initializing"
  ELSE "Absent"

\* Handles the program can still reach: the stored one and those held by
\* requests that received one and have not finished.
LiveHandles == ({sdkClient} \cup {result[c] : c \in Callers}) \ {0}

\* Caller c's getSDKClient() invocation fails in this step.
FailsNow(c) == pc[c] # "thrown" /\ pc'[c] = "thrown"

\* Caller c begins a getSDKClient() invocation in this step.
CallsNow(c) == pc[c] = "idle" /\ pc'[c] # "idle"

\* This step is an invocation of the onUnauthorized callback.
UnauthorizedLogged ==
  log' = Append(log, LogEntry("error", "Unauthorized error from SDK:"))

(***************************************************************************)
(* Properties.                                                             *)
(***************************************************************************)

\* C1: at no time are two initialization attempts (WecanComply.create calls)
\* in flight; concurrent callers before the first success cause one attempt.
C1_SingleAttemptInFlight == Cardinality(Pending) <= 1

\* C2: a caller that arrived while an attempt was in flight shares that
\* attempt's outcome: the same handle if it succeeds, a failure if it fails.
C2_SharedOutcome ==
  \A c \in Callers : \A a \in joined[c] :
    pc[c] \in {"returned", "thrown"} =>
      /\ a \in resolved => (pc[c] = "returned" /\ result[c] = a)
      /\ a \in rejected => pc[c] = "thrown"

\* C3: when an attempt that was in flight during a reset completes
\* successfully, the stored handle is still absent (its result is discarded).
C3_ResetDiscardsInFlight ==
  [][\A c \in Callers :
       (pc[c] = "awaitCreate" /\ attempt[c] \in resetDuring
          /\ attempt[c] \in resolved')
       => sdkClient' = 0]_vars

\* C4: whenever a getSDKClient() invocation fails, the manager is left with no
\* stored handle, so the next call starts a new attempt.
C4_FailureLeavesAbsent ==
  [][\A c \in Callers : FailsNow(c) => sdkClient' = 0]_vars

\* C5: at most one live handle exists, and every handle stored or received by
\* a caller comes from a completed initialization.
C5_AtMostOneLiveHandle ==
  /\ Cardinality(LiveHandles) <= 1
  /\ LiveHandles \subseteq resolved

\* C6: a stored handle is removed only by resetSDKClient() and is never
\* replaced by a different handle.
C6_StoredHandleStable ==
  [][(sdkClient # 0 /\ sdkClient' # sdkClient)
       => (sdkClient' = 0 /\ log' = Append(log, LogEntry("info", "SDK client reset")))]_vars

\* C7: the manager only moves Absent -> Initializing -> Ready, Initializing ->
\* Absent on failure and Ready -> Absent on reset, and is Absent immediately
\* after any failed attempt.
C7_LifecycleTransitions ==
  [][/\ LifecycleState' # LifecycleState =>
          <<LifecycleState, LifecycleState'>> \in
             {<<"Absent", "Initializing">>, <<"Initializing", "Ready">>,
              <<"Initializing", "Absent">>, <<"Ready", "Absent">>}
     /\ (sdkClient # 0 /\ sdkClient' # 0) => sdkClient' = sdkClient
     /\ \A c \in Callers : FailsNow(c) => LifecycleState' = "Absent"]_vars

\* C8: the first getSDKClient() call after a reset (token set) makes a new
\* WecanComply.create call and does not return the handle stored before it.
C8_FreshInitAfterReset ==
  [][\A c \in Callers :
       (afterReset /\ accessToken /\ CallsNow(c))
       => /\ createCount' = createCount + 1
          /\ pc'[c] = "awaitCreate"
          /\ (staleHandle # 0 => result'[c] # staleHandle)]_vars

\* C9: with a handle stored and no reset in between, sequential getSDKClient()
\* calls return the same handle and make no WecanComply.create call.
C9_Idempotent ==
  [][\A c \in Callers :
       (sdkClient # 0 /\ lastFast # 0 /\ CallsNow(c))
       => /\ pc'[c] = "returned"
          /\ result'[c] = lastFast
          /\ createCount' = createCount]_vars

\* C10: an invocation of the onUnauthorized callback, in any state, leaves the
\* stored handle and the whole manager state unchanged.
C10_UnauthorizedIsLogOnly ==
  [][UnauthorizedLogged => UNCHANGED managerVars]_vars

\* The callback has run while a handle was stored and the handle is kept.
C10_Witness ==
  /\ sdkClient # 0
  /\ Len(log) > 0
  /\ log[Len(log)] = LogEntry("error", "Unauthorized error from SDK:")

(***************************************************************************)
(* Properties of the request gateway (GatewaySpec).                        *)
(***************************************************************************)

\* The requests that have been answered.
Answered == {c \in Callers : stage[c] = "done"}

\* The answered requests that were routed to a handler.
AnsweredRoutes == {c \in Answered : req[c] # <<>>}

\* The kinds of value that are not of the declared type of a string field
\* (absent, or of another primitive type).
NotAString(k) == ~IsString(k)

\* A request of a validated route is malformed: a required field is missing,
\* of the wrong primitive type, or not an array where one is declared.
Malformed(r) ==
  CASE r.route = "saveVaultAnswers" -> ~IsArray(r.input.answers)
    [] r.route = "downloadVaultFile" -> NotAString(r.input.mimetype)
    [] r.route = "shareVault" -> NotAString(r.input.relation_uuid)
    [] r.route = "createVault" ->
         \/ \E f \in VaultStringFields : NotAString(r.input[f])
         \/ ~IsArray(r.input.relation_uuids)
    [] OTHER -> FALSE

\* The getSDKClient() call of request c failed before any operation was invoked.
InitFailed(c) == error[c] # <<>> /\ ops[c] = <<>>

\* The SDK operation of request c threw.
BackendFailed(c) ==
  error[c] # <<>> /\ ops[c] # <<>> /\ ops[c][1].result = <<>>

\* The handler of c threw after its SDK operation had resolved.
ThrewAfterOperation(c) ==
  error[c] # <<>> /\ ops[c] # <<>> /\ ops[c][1].result # <<>>

\* A body of the shape {error: string, message: string}.
IsEnvelope(b) ==
  /\ DOMAIN b = {"error", "message"}
  /\ b.error \in STRING
  /\ b.message \in STRING

\* C11: a malformed request to a validated route is answered 400 and no
\* backend operation is invoked for it.
C11_MalformedRejected ==
  \A c \in Callers :
    (req[c] # <<>> /\ Malformed(req[c][1])) =>
      /\ ops[c] = <<>>
      /\ c \in Answered => response[c][1].status = 400

\* C12: a file download without a string mimetype is answered 400 with the
\* fixed body, and neither getSDKClient() nor downloadVaultFile is started.
C12_MissingMimetype ==
  \A c \in Callers :
    (/\ req[c] # <<>>
     /\ req[c][1].route = "downloadVaultFile"
     /\ req[c][1].input.mimetype \in {"undefined", "array", "object"}) =>
      /\ pc[c] = "idle"
      /\ attempt[c] = 0
      /\ ops[c] = <<>>
      /\ stage[c] \in {"routed", "done"}
      /\ c \in Answered =>
           response[c][1] =
             [status |-> 400, type |-> "json",
              body |-> [error |-> "Invalid request",
                        message |-> "mimetype query parameter is required"]]

\* A download without mimetype has been answered.
C12_Witness ==
  \E c \in Answered :
    /\ req[c] # <<>>
    /\ req[c][1].route = "downloadVaultFile"
    /\ req[c][1].input.mimetype = "undefined"
    /\ response[c][1].status = 400

\* C13: when the SDK operation throws, the route answers with the status the
\* error carries, with 500 if it carries none, and with the route's envelope;
\* createVault throwing with 409 gives 409 and "Failed to create vault".
C13_BackendStatusForwarded ==
  \A c \in AnsweredRoutes :
    BackendFailed(c) =>
      LET e == error[c][1]
          r == response[c][1]
      IN /\ e.responseStatus # 0 => r.status = e.responseStatus
         /\ e.responseStatus = 0 => r.status = 500
         /\ r.body.message = e.message
         /\ (req[c][1].route = "createVault" /\ e.responseStatus = 409) =>
              r = [status |-> 409, type |-> "json",
                   body |-> [error |-> "Failed to create vault",
                             message |-> e.message]]

\* createVault has thrown with 409 and the request has been answered.
C13_Witness ==
  \E c \in AnsweredRoutes :
    /\ req[c][1].route = "createVault"
    /\ BackendFailed(c)
    /\ error[c][1].responseStatus = 409
    /\ response[c][1].status = 409

IsHealth(c) == req[c] # <<>> /\ req[c][1].route = "health"

C15_HealthStructured ==
  \A c \in Answered :
    IsHealth(c) =>
      /\ pc[c] \in {"returned", "thrown"}
      /\ pc[c] = "returned" =>
           /\ response[c][1].status = 200
           /\ response[c][1].body.status = "healthy"
      /\ pc[c] = "thrown" =>
           /\ response[c][1].status = 503
           /\ response[c][1].body.status = "unhealthy"
           /\ response[c][1].body.error = error[c][1].message

\* The health route has answered after WecanComply.create rejected.
C15_Witness ==
  \E c \in Answered :
    /\ IsHealth(c)
    /\ pc[c] = "thrown"
    /\ attempt[c] \in rejected
    /\ response[c][1].status = 503

\* C16: without an access token getSDKClient() throws the token error, no
\* WecanComply.create call is made, the manager keeps no handle, and the
\* health route answers 503 "unhealthy".
C16_NoTokenNoCreate ==
  ~accessToken =>
    /\ createCount = 0
    /\ sdkClient = 0
    /\ Pending = {}
    /\ resolved = {} /\ rejected = {}
    /\ \A c \in Callers :
         /\ pc[c] \in {"idle", "thrown"}
         /\ pc[c] = "thrown" => error[c] = <<TokenError>>
         /\ (c \in Answered /\ IsHealth(c)) =>
              /\ response[c][1].status = 503
              /\ response[c][1].body.status = "unhealthy"

\* Without a token, a route's request failed earlier and a later health check
\* has been answered 503.
C16_Witness ==
  /\ ~accessToken
  /\ \E i \in 1..Len(log) :
       log[i].level = "error" /\ log[i].msg # "Health check failed:"
  /\ \E c \in Answered : IsHealth(c) /\ response[c][1].status = 503

\* C17: a request whose getSDKClient() call failed is answered 500, whatever
\* the initialization error carries.
C17_InitFailureIs500 ==
  \A c \in AnsweredRoutes :
    (req[c][1].route \in BackendRoutes /\ InitFailed(c)) =>
      response[c][1].status = 500

\* C18: every response status is one of 200, 400, 404, 500, 503.
C18_DocumentedStatuses ==
  \A c \in Answered : response[c][1].status \in {200, 400, 404, 500, 503}

(***************************************************************************)
(* Properties of the configuration (ConfigSpec).                           *)
(***************************************************************************)

\* The variable is set to a string that differs from the file's value.
Overrides(e, fileValue) == e # <<>> /\ e[1] # fileValue

\* The numeric variable is set to a numeral that differs from the file's value.
OverridesInt(e, fileValue) ==
  /\ e # <<>>
  /\ e[1] # <<>>
  /\ \A i \in 1..Len(e[1]) : e[1][i] \in Digits
  /\ e[1] # String(fileValue)

\* C19: for every overridable field, a variable set to a value that differs
\* from the file's holds in the resolved configuration, the TLS fields
\* (enable, key path, certificate path) included.
C19_EnvironmentWins ==
  config # <<>> =>
    LET e == env[1]
        f == fileConfig[1]
        r == config[1]
    IN /\ OverridesInt(e.PORT, f.server.port) =>
            r.server.port # <<>> /\ String(r.server.port[1]) = e.PORT[1]
       /\ OverridesInt(e.WECAN_TIMEOUT_MS, f.wecanComply.timeoutMs) =>
            r.wecanComply.timeoutMs # <<>> /\ String(r.wecanComply.timeoutMs[1]) = e.WECAN_TIMEOUT_MS[1]
       /\ OverridesInt(e.WECAN_RETRIES, f.wecanComply.retries) =>
            r.wecanComply.retries # <<>> /\ String(r.wecanComply.retries[1]) = e.WECAN_RETRIES[1]
       /\ Overrides(e.HOST, f.server.host) => r.server.host = e.HOST[1]
       /\ Overrides(e.WECAN_WORKSPACE_URL_TEMPLATE, f.wecanComply.workspaceUrlTemplate) =>
            r.wecanComply.workspaceUrlTemplate = e.WECAN_WORKSPACE_URL_TEMPLATE[1]
       /\ Overrides(e.LOG_LEVEL, f.logging.level) => r.logging.level = e.LOG_LEVEL[1]
       /\ Overrides(e.LOG_FORMAT, f.logging.format) => r.logging.format = e.LOG_FORMAT[1]
       /\ Overrides(e.CORS_ORIGIN, f.cors.origin) => r.cors.origin = e.CORS_ORIGIN[1]
       /\ e.CORS_ENABLED = <<"true">> => r.cors.enabled
       /\ e.CORS_ENABLED = <<"false">> => ~r.cors.enabled
       /\ e.HTTPS_ENABLED = <<"true">> =>
            /\ "https" \in DOMAIN r.server
            /\ r.server.https.enabled
       /\ e.HTTPS_KEY_PATH # <<>> =>
            /\ "https" \in DOMAIN r.server
            /\ r.server.https.keyPath = e.HTTPS_KEY_PATH[1]
       /\ e.HTTPS_CERT_PATH # <<>> =>
            /\ "https" \in DOMAIN r.server
            /\ r.server.https.certPath = e.HTTPS_CERT_PATH[1]

\* C20: for every field whose variable is not set, the resolved value is the
\* value of the configuration file, cors.enabled included.
C20_FileFallback ==
  config # <<>> =>
    LET e == env[1]
        f == fileConfig[1]
        r == config[1]
    IN /\ e.PORT = <<>> => r.server.port = <<f.server.port>>
       /\ e.WECAN_TIMEOUT_MS = <<>> => r.wecanComply.timeoutMs = <<f.wecanComply.timeoutMs>>
       /\ e.WECAN_RETRIES = <<>> => r.wecanComply.retries = <<f.wecanComply.retries>>
       /\ e.HOST = <<>> => r.server.host = f.server.host
       /\ e.WECAN_WORKSPACE_URL_TEMPLATE = <<>> =>
            r.wecanComply.workspaceUrlTemplate = f.wecanComply.workspaceUrlTemplate
       /\ e.LOG_LEVEL = <<>> => r.logging.level = f.logging.level
       /\ e.LOG_FORMAT = <<>> => r.logging.format = f.logging.format
       /\ e.CORS_ORIGIN = <<>> => r.cors.origin = f.cors.origin
       /\ e.CORS_ENABLED = <<>> => r.cors.enabled = f.cors.enabled

\* The server has started and accepts requests.
Serving == server \in {"http", "https"}

\* The value supplied for a numeric field is a decimal numeral.
IsNumeral(e) ==
  /\ e # <<>>
  /\ e[1] # <<>>
  /\ \A i \in 1..Len(e[1]) : e[1][i] \in Digits

\* C21: the process never serves with a numeric field whose supplied value
\* does not parse as a number: no such field is NaN or silently substituted.
C21_NumericFailFast ==
  Serving =>
    LET e == env[1]
        r == config[1]
    IN /\ r.server.port # <<>>
       /\ r.wecanComply.timeoutMs # <<>>
       /\ r.wecanComply.retries # <<>>
       /\ e.PORT # <<>> => IsNumeral(e.PORT)
       /\ e.WECAN_TIMEOUT_MS # <<>> => IsNumeral(e.WECAN_TIMEOUT_MS)
       /\ e.WECAN_RETRIES # <<>> => IsNumeral(e.WECAN_RETRIES)

\* C22: with HTTPS_ENABLED=true and the key path or the certificate path
\* missing, no listener is started: neither a plain HTTP one nor an HTTPS one.
C22_PartialTlsFailsFast ==
  (/\ env # <<>>
   /\ env[1].HTTPS_ENABLED = <<"true">>
   /\ (env[1].HTTPS_KEY_PATH = <<>> \/ env[1].HTTPS_CERT_PATH = <<>>)) =>
     ~Serving

\* C23: the gateway passes workspace id, vault id and answers through
\* unchanged; against a backend that stores answers, a successful PUT of A
\* makes A the stored answers of that workspace and vault, and a successful
\* GET returns the stored answers of its workspace and vault.
C23_RoundTrip ==
  [][\A c \in Callers :
       (stage[c] = "backend" /\ stage'[c] = "done" /\ response'[c][1].status = 200) =>
         LET r == req[c][1]
             k == <<r.params.workspaceUuid, r.params.vaultId>>
         IN /\ Len(ops[c]) = 1
            /\ ops[c][1].op = r.route
            /\ IF r.route = "saveVaultAnswers"
               THEN /\ ops[c][1].args =
                         [workspaceUuid |-> k[1], vaultId |-> k[2], answers |-> r.answers]
                    /\ store' = [store EXCEPT ![k] = r.answers]
               ELSE /\ ops[c][1].args = [workspaceUuid |-> k[1], vaultId |-> k[2]]
                    /\ store' = store
                    /\ response'[c][1].body.data = store[k]]_vars

\* A GET has returned answers that an earlier PUT stored.
C23_Witness ==
  \E c \in Answered :
    /\ req[c] # <<>>
    /\ req[c][1].route = "getVaultAnswers"
    /\ response[c][1].status = 200
    /\ response[c][1].body.data \in Contents

\* The request of c passed the validation of its route.
PassedValidation(c) ==
  /\ req[c] # <<>>
  /\ req[c][1].route \in BackendRoutes
  /\ ValidationMessage(req[c][1]) = ""

\* C24 as stated: every answered request that passed validation has invoked
\* exactly one backend operation.
C24_ExactlyOneOperation ==
  \A c \in Answered : PassedValidation(c) => Len(ops[c]) = 1

\* C24 amended: no request invokes two operations; an answered request that
\* passed validation and whose getSDKClient() call returned has invoked
\* exactly one, its route's, on the handle that call returned; a request that
\* failed validation or whose getSDKClient() call threw has invoked none.
C24_OneOperationUnlessInitFails ==
  \A c \in Callers :
    /\ Len(ops[c]) <= 1
    /\ ops[c] # <<>> =>
         /\ PassedValidation(c)
         /\ pc[c] = "returned"
         /\ ops[c][1].op = req[c][1].route
         /\ ops[c][1].handle = result[c]
         /\ ops[c][1].handle \in resolved
    /\ (c \in Answered /\ PassedValidation(c)) =>
         IF pc[c] = "returned" THEN Len(ops[c]) = 1
         ELSE pc[c] = "thrown" /\ ops[c] = <<>>

\* A request that passed validation has been answered after its one operation.
C24_Witness ==
  \E c \in Answered :
    /\ PassedValidation(c)
    /\ Len(ops[c]) = 1
    /\ response[c][1].status = 200

\* The texts of the exceptions that are neither validation nor SDK failures.
DetailTexts ==
  {e.message : e \in UnexpectedErrors}
  \cup {e.message : e \in {m \in MiddlewareErrors : m.status = 0}}

\* An exception that is neither a validation failure nor an SDK failure was
\* raised while the request of c was handled: one without status handed to
\* the error middleware, or one thrown in a handler after its operation.
UnexpectedFailure(c) ==
  \/ req[c] = <<>> /\ error[c] # <<>> /\ error[c][1].status = 0
  \/ req[c] # <<>> /\ ThrewAfterOperation(c)

\* C25: an unexpected exception is answered 500 and its own text is not in
\* the response body.
C25_UnexpectedIsGeneric ==
  \A c \in Answered :
    UnexpectedFailure(c) =>
      /\ response[c][1].status = 500
      /\ response[c][1].body.message \notin DetailTexts

\* C26: the step of a route that sends an error response (validation,
\* initialization or backend failure) logs an entry at error level.
C26_FailuresLogged ==
  [][\A c \in Callers :
       (/\ response[c] = <<>>
        /\ response'[c] # <<>>
        /\ req[c] # <<>>
        /\ req[c][1].route \in BackendRoutes
        /\ response'[c][1].status \notin 200..299) =>
          /\ Len(log') = Len(log) + 1
          /\ log'[Len(log')].level = "error"]_vars

\* C27: a successful file download is not sent as JSON: its Content-Type is
\* the mimetype of the query and its body the bytes of the blob that
\* downloadVaultFile resolved with.
C27_DownloadIsRaw ==
  \A c \in AnsweredRoutes :
    (req[c][1].route = "downloadVaultFile" /\ response[c][1].status = 200) =>
      /\ req[c][1].mimetype \in MimeTypes
      /\ response[c][1].type = req[c][1].mimetype
      /\ response[c][1].type # "json"
      /\ Len(ops[c]) = 1
      /\ ops[c][1].result # <<>>
      /\ response[c][1].body = [bytes |-> ops[c][1].result[1]]

\* A file has been downloaded as image/png.
C27_Witness ==
  \E c \in AnsweredRoutes :
    /\ req[c][1].route = "downloadVaultFile"
    /\ response[c][1].status = 200
    /\ response[c][1].type = "image/png"
    /\ response[c][1].body = [bytes |-> "blobB"]

\* The secrets whose text the log entry quotes.
QuotedSecrets(entry) ==
  IF "err" \in DOMAIN entry /\ entry.err.quoted # "" THEN {entry.err.quoted} ELSE {}

\* C28: no log entry quotes the access token or the per-workspace keys.
C28_NoSecretInLog ==
  \A i \in 1..Len(log) :
    QuotedSecrets(log[i]) \cap {"WECAN_ACCESS_TOKEN", "WECAN_WORKSPACE_KEYS"} = {}

\* The handler of c is suspended on initialization or on its SDK operation.
Suspended(c) ==
  \/ stage[c] = "client" /\ pc[c] = "awaitCreate"
  \/ stage[c] = "backend"

\* The log of the model is full: no step that logs can be taken.
LogFull == Len(log) >= MaxLog

\* While another request is suspended, a request that can arrive, or whose
\* handler has something to run, can take its step.
NotBlocked ==
  \A c \in Callers : \A d \in Callers \ {c} :
    (Suspended(c) /\ ~LogFull) =>
      /\ stage[d] = "free" => ENABLED ArriveConcurrent(d)
      /\ stage[d] = "routed" => ENABLED HandlerStep(d)
      /\ (stage[d] = "client" /\ pc[d] \in {"returned", "thrown"}) =>
           ENABLED HandlerStep(d)

\* C29: a suspended request blocks no other, and every request that has
\* arrived is answered when the calls it awaits settle (within the length
\* of the modelled log).
C29_NoBlocking ==
  /\ []NotBlocked
  /\ \A c \in Callers : (stage[c] = "routed") ~> (stage[c] = "done" \/ LogFull)

\* One request is suspended on its SDK operation while another has its
\* successful answer.
C29_Witness ==
  \E c \in Callers : \E d \in Callers \ {c} :
    /\ stage[c] = "backend"
    /\ stage[d] = "done"
    /\ response[d][1].status = 200

\* C30: a response is sent only by the step that ends the handling of the
\* request, which had sent none before; once sent it stays as it is until the
\* exchange is over. So every handled request has exactly one response.
C30_ExactlyOneResponse ==
  [][\A c \in Callers :
       /\ (stage[c] # "done" /\ stage'[c] = "done") =>
            (response[c] = <<>> /\ response'[c] # <<>>)
       /\ (response'[c] # response[c] /\ response'[c] # <<>>) =>
            (stage[c] # "done" /\ stage'[c] = "done")
       /\ response[c] # <<>> =>
            /\ stage[c] = "done"
            /\ \/ response'[c] = response[c] /\ stage'[c] = "done"
               \/ response'[c] = <<>> /\ stage'[c] = "free"]_vars

\* A createVault request that failed validation has its 400 answer.
C30_Witness ==
  \E c \in Callers :
    /\ stage[c] = "done"
    /\ req[c] # <<>>
    /\ req[c][1].route = "createVault"
    /\ ops[c] = <<>>
    /\ response[c][1].status = 400

\* C31: every SDK operation a handler has invoked was invoked on the handle
\* of a create call that had resolved, and a handler whose getSDKClient()
\* call is pending or has thrown has invoked none.
C31_OperationOnInitializedHandle ==
  \A c \in Callers :
    /\ \A i \in 1..Len(ops[c]) :
         /\ ops[c][i].handle # 0
         /\ ops[c][i].handle \in resolved
         /\ ops[c][i].handle = result[c]
    /\ pc[c] \in {"awaitCreate", "thrown", "idle"} => ops[c] = <<>>

\* One handler has its operation in flight on the handle it was given while
\* the create call of another handler is still pending.
C31_Witness ==
  \E c \in Callers : \E d \in Callers \ {c} :
    /\ stage[c] = "backend"
    /\ ops[c][1].handle = result[c]
    /\ stage[d] = "client"
    /\ pc[d] = "awaitCreate"
    /\ attempt[d] # result[c]

\* The step is a call of resetSDKClient().
IsResetStep ==
  /\ Len(log') = Len(log) + 1
  /\ log'[Len(log')].msg = "SDK client reset"

\* C34: a reset sets the stored handle to null and leaves every handle
\* already returned, every create call in flight and every request as it
\* was; a handler that resumes with its handle invokes its operation on that
\* handle, whatever the manager stores by then.
C34_ResetChangesStoredHandleOnly ==
  [][/\ IsResetStep =>
          /\ sdkClient' = 0
          /\ UNCHANGED <<accessToken, createCount, pc, attempt, result,
                         resolved, rejected, gatewayVars>>
     /\ \A c \in Callers :
          (stage[c] = "client" /\ stage'[c] = "backend") =>
            /\ Len(ops'[c]) = 1
            /\ ops'[c][1].handle = result[c]
            /\ result[c] \in resolved]_vars

\* After a reset, a handler that had its handle before the reset has its
\* operation in flight on that handle, which the manager no longer stores.
C34_Witness ==
  \E c \in Callers :
    /\ stage[c] = "backend"
    /\ sdkClient = 0
    /\ afterReset
    /\ ops[c][1].handle = staleHandle
    /\ staleHandle # 0

\* resetSDKClient() has not been called so far.
NoResetSoFar ==
  \A i \in 1..Len(log) : log[i].msg # "SDK client reset"

\* Caller c stands for the health handler (README.md lines 338-344) at the
\* point where its getSDKClient() call, begun while the manager was Absent,
\* has returned the handle of the create call it made.
HealthInitialized(c) ==
  /\ pc[c] = "returned"
  /\ joined[c] = {}
  /\ attempt[c] # 0
  /\ result[c] = attempt[c]

\* C32: once the getSDKClient() call of a health check begun in Absent has
\* succeeded, and with no reset, the getSDKClient() call of a request that
\* comes afterwards returns the handle of the health check and makes no
\* WecanComply.create call.
C32_HealthInitializesSharedHandle ==
  [][\A c \in Callers : \A d \in Callers \ {c} :
       (HealthInitialized(c) /\ NoResetSoFar /\ CallsNow(d))
       => /\ pc'[d] = "returned"
          /\ result'[d] = result[c]
          /\ createCount' = createCount]_vars

\* C33: a request whose method and path match no route is answered 404 with
\* the Not Found body, has started no getSDKClient() call and has invoked no
\* SDK operation.
C33_UnknownRouteIs404 ==
  \A c \in Callers :
    (stage[c] = "done" /\ req[c] # <<>> /\ req[c][1].route = "unknown") =>
      /\ response[c] = <<NotFoundResponse>>
      /\ ops[c] = <<>>
      /\ pc[c] = "idle"
      /\ attempt[c] = 0

\* What the two validation branches of createVault answer.
RequiredResponse ==
  [status |-> 400, type |-> "json",
   body |-> [error |-> "Invalid request",
             message |-> "name, template_type, push_category_uuid, and relation_uuids are required"]]

MustBeArrayResponse ==
  [status |-> 400, type |-> "json",
   body |-> [error |-> "Invalid request", message |-> "relation_uuids must be an array"]]

\* Some field of the body b is falsy.
SomeFalsy(b) ==
  \E f \in {"name", "template_type", "push_category_uuid", "relation_uuids"} :
    b[f] \in {"undefined", "null", "emptyString", "zero", "false"}

\* The createVault call with the five values of request r.
CreateVaultCall(r) ==
  [workspaceUuid |-> r.params.workspaceUuid, name |-> r.input.name,
   template_type |-> r.input.template_type,
   push_category_uuid |-> r.input.push_category_uuid,
   relation_uuids |-> r.input.relation_uuids]

\* The first two cases of C35: a falsy field is answered 'are required';
\* otherwise relation_uuids that is not an array is answered 'must be an
\* array'; in both cases nothing is called.
ValidatedInOrder(c) ==
  LET b == req[c][1].input IN
    /\ SomeFalsy(b) =>
         /\ response[c] = <<RequiredResponse>>
         /\ ops[c] = <<>> /\ pc[c] = "idle"
    /\ (~SomeFalsy(b) /\ b.relation_uuids \notin {"emptyArray", "array"}) =>
         /\ response[c] = <<MustBeArrayResponse>>
         /\ ops[c] = <<>> /\ pc[c] = "idle"

\* The body of c's request passes both tests.
VaultBodyValid(c) ==
  /\ ~SomeFalsy(req[c][1].input)
  /\ req[c][1].input.relation_uuids \in {"emptyArray", "array"}

\* C35 as stated: an answered createVault request is answered by the first
\* validation branch that applies, and otherwise createVault has been called
\* exactly once with the five values of the request.
C35_CreateVaultValidation ==
  \A c \in Answered :
    /\ ValidatedInOrder(c)
    /\ VaultBodyValid(c) =>
         /\ Len(ops[c]) = 1
         /\ ops[c][1].op = "createVault"
         /\ ops[c][1].args = CreateVaultCall(req[c][1])

\* C35 amended: as above, but a request that passes both tests has called
\* createVault exactly once if its getSDKClient() call returned, and has
\* called nothing if that call threw.
C35_CreateVaultValidationThenClient ==
  \A c \in Answered :
    /\ ValidatedInOrder(c)
    /\ VaultBodyValid(c) =>
         IF pc[c] = "returned"
         THEN /\ Len(ops[c]) = 1
              /\ ops[c][1].op = "createVault"
              /\ ops[c][1].args = CreateVaultCall(req[c][1])
         ELSE pc[c] = "thrown" /\ ops[c] = <<>>

\* A createVault request with an empty relation_uuids array has been
\* answered with the vault that createVault returned.
C35_Witness ==
  \E c \in Answered :
    /\ req[c][1].input.relation_uuids = "emptyArray"
    /\ Len(ops[c]) = 1
    /\ ops[c][1].result # <<>>
    /\ response[c][1].status = 200

\* The values of WECAN_WORKSPACE_KEYS that are not valid JSON, or valid JSON
\* that is not an array.
UnusableKeys == {"", "{key1}", "MIIEvQIBADANBgkqhkiG9w0BAQEFAASC"}

\* C36: with such a value (token set, no handle stored) a getSDKClient() call
\* does not throw: it makes the WecanComply.create call and suspends on it,
\* and the call is made with workspaceKeys undefined.
C36_UnusableKeysAreAbsent ==
  [][\A c \in Callers :
       (/\ CallsNow(c)
        /\ accessToken
        /\ sdkClient = 0
        /\ env[1].WECAN_WORKSPACE_KEYS # <<>>
        /\ env[1].WECAN_WORKSPACE_KEYS[1] \in UnusableKeys)
       => /\ pc'[c] = "awaitCreate"
          /\ createCount' = createCount + 1
          /\ Len(ops'[c]) = Len(ops[c]) + 1
          /\ ops'[c][Len(ops'[c])].op = "WecanComply.create"
          /\ ops'[c][Len(ops'[c])].args.workspaceKeys = <<>>]_vars

\* With a JSON object in WECAN_WORKSPACE_KEYS the client has been created
\* and stored, by a create call made without workspace keys.
C36_Witness ==
  /\ env[1].WECAN_WORKSPACE_KEYS = <<"{key1}">>
  /\ sdkClient # 0
  /\ \E c \in Callers :
       /\ ops[c] # <<>>
       /\ ops[c][1].handle = sdkClient
       /\ ops[c][1].args.workspaceKeys = <<>>

====
